---- MODULE Spec2Model ----
(***************************************************************************)
(* Model of the J5 example node (src/j5_interface/src/j5_interface.cpp):   *)
(* the command builder getCommandMsg, the status callback statusMsgHandler *)
(* and the publish loop of main.                                           *)
(*                                                                         *)
(* Numbers.  A floating-point value is a record: a finite value in units   *)
(* of 1/100 (field n), an infinity (n = 1 or -1) or a NaN.  Finite         *)
(* magnitudes above BigUnits are represented by BigUnits: the program only *)
(* compares a value with 3.0 and 1.0.  Strings are sequences of one-       *)
(* character strings; the input alphabet is decimal (no hexadecimal        *)
(* floats), with at most two fractional digits significant.                *)
(***************************************************************************)
EXTENDS Integers, Sequences, FiniteSets, TLC

\* ------------------------------------------------------------------ values

Centi == 10 * 10
BigUnits == 1000000 * Centi

Fin(n) == [k |-> "fin", n |-> n]
Inf(sg) == [k |-> "inf", n |-> sg]
NaN == [k |-> "nan", n |-> 0]

\* a < b on doubles: false as soon as one side is a NaN
FLt(a, b) ==
    IF a.k = "nan" \/ b.k = "nan" THEN FALSE
    ELSE IF a.k = "inf" THEN a.n < 0 /\ ~(b.k = "inf" /\ b.n < 0)
    ELSE IF b.k = "inf" THEN b.n > 0
    ELSE a.n < b.n

\* a == b on doubles: a NaN equals nothing, itself included
FEq(a, b) == a.k # "nan" /\ b.k # "nan" /\ a = b

FNeg(a) == IF a.k = "nan" THEN a ELSE [a EXCEPT !.n = 0 - a.n]

\* std::max(a, b) is (a < b) ? b : a
StdMax(a, b) == IF FLt(a, b) THEN b ELSE a

\* std::min(a, b) is (b < a) ? b : a
StdMin(a, b) == IF FLt(b, a) THEN b ELSE a

\* --------------------------------------------------------------- constants

DefaultVelocityCmd == Fin(0)
DefaultTurnRateCmd == Fin(0)
MaxVelocityCommand == Fin(3 * Centi)
MaxTurnRateCommand == Fin(1 * Centi)

\* ------------------------------------------------------ std::stof (strtof)

DigitChars == <<"0", "1", "2", "3", "4", "5", "6", "7", "8", "9">>
IsDigit(c) == \E i \in 1..10 : DigitChars[i] = c
DigitVal(c) == (CHOOSE i \in 1..10 : DigitChars[i] = c) - 1
IsSpace(c) == c \in {" ", "\t", "\n"}
Lower(c) ==
    CASE c = "I" -> "i" [] c = "N" -> "n" [] c = "F" -> "f"
      [] c = "A" -> "a" [] c = "E" -> "e" [] OTHER -> c

CharAt(s, i) == IF i >= 1 /\ i <= Len(s) THEN s[i] ELSE ""

RECURSIVE SkipSpace(_, _)
SkipSpace(s, i) ==
    IF i <= Len(s) /\ IsSpace(s[i]) THEN SkipSpace(s, i + 1) ELSE i

\* index just after the longest run of digits that starts at i
RECURSIVE DigitRunEnd(_, _)
DigitRunEnd(s, i) ==
    IF i <= Len(s) /\ IsDigit(s[i]) THEN DigitRunEnd(s, i + 1) ELSE i

\* the digits s[i..j-1] as a number, saturating at cap
RECURSIVE DigitsValue(_, _, _, _, _)
DigitsValue(s, i, j, acc, cap) ==
    IF i >= j THEN acc
    ELSE LET nx == acc * 10 + DigitVal(s[i])
         IN  DigitsValue(s, i + 1, j, IF nx > cap THEN cap ELSE nx, cap)

RECURSIVE LeadingZeros(_, _)
LeadingZeros(m, i) ==
    IF i <= Len(m) /\ m[i] = "0" THEN 1 + LeadingZeros(m, i + 1) ELSE 0

RECURSIVE Pow10(_)
Pow10(e) == IF e <= 0 THEN 1 ELSE 10 * Pow10(e - 1)

MatchWord(s, i, w) ==
    /\ i + Len(w) - 1 <= Len(s)
    /\ \A j \in 1..Len(w) : Lower(s[i + j - 1]) = w[j]

\* accumulators saturate here so that long digit runs stay in range
ExpCap == 10000 - 1
MantCap == 1000000000 - 1

\* FLT_MAX is about 3.40e38: a decimal of order 39 (1e38 <= |x| < 1e39)
\* overflows when its first three significant digits exceed 340, and every
\* decimal of higher order does; a decimal below 1e-38 is subnormal and
\* strtof reports ERANGE for it too.
\* the finite value of mantissa digits m (nint of them before the point)
\* times 10^ex, or the range error strtof reports for it
DecimalValue(sg, m, nint, ex) ==
    LET lead == LeadingZeros(m, 1)
        sig == SubSeq(m, lead + 1, Len(m))
        order == nint - lead + ex
        sig3 == DigitsValue(sig \o <<"0", "0", "0">>, 1, 4, 0, MantCap)
        mant == DigitsValue(m, 1, Len(m) + 1, 0, MantCap)
        shift == ex - (Len(m) - nint) + 2
    IN  IF lead = Len(m) THEN [exc |-> "none", val |-> Fin(0)]
        ELSE IF order > 39 \/ (order = 39 /\ sig3 > 340)
             THEN [exc |-> "out_of_range", val |-> Fin(0)]
        ELSE IF order < 0 - 37
             THEN [exc |-> "out_of_range", val |-> Fin(0)]
        ELSE IF order > 6 THEN [exc |-> "none", val |-> Fin(sg * BigUnits)]
        ELSE IF order < 0 - 2 THEN [exc |-> "none", val |-> Fin(0)]
        ELSE IF shift >= 0
             THEN [exc |-> "none", val |-> Fin(sg * mant * Pow10(shift))]
        ELSE [exc |-> "none", val |-> Fin(sg * (mant \div Pow10(0 - shift)))]

\* std::stof: leading white space, a sign, then inf / nan / a decimal with an
\* optional exponent; what follows the number is ignored.  No conversion
\* throws std::invalid_argument, ERANGE throws std::out_of_range.
StoF(s) ==
    LET i0 == SkipSpace(s, 1)
        hasSign == CharAt(s, i0) \in {"+", "-"}
        sg == IF CharAt(s, i0) = "-" THEN 0 - 1 ELSE 1
        i1 == IF hasSign THEN i0 + 1 ELSE i0
        i2 == DigitRunEnd(s, i1)
        hasDot == CharAt(s, i2) = "."
        i3 == IF hasDot THEN DigitRunEnd(s, i2 + 1) ELSE i2
        nint == i2 - i1
        nfrac == IF hasDot THEN i3 - (i2 + 1) ELSE 0
        m == SubSeq(s, i1, i2 - 1) \o
             (IF hasDot THEN SubSeq(s, i2 + 1, i3 - 1) ELSE <<>>)
        hasE == Lower(CharAt(s, i3)) = "e"
        eSigned == CharAt(s, i3 + 1) \in {"+", "-"}
        esg == IF CharAt(s, i3 + 1) = "-" THEN 0 - 1 ELSE 1
        e1 == IF eSigned THEN i3 + 2 ELSE i3 + 1
        e2 == DigitRunEnd(s, e1)
        hasExp == hasE /\ e2 > e1
        ex == IF hasExp THEN esg * DigitsValue(s, e1, e2, 0, ExpCap) ELSE 0
    IN  IF MatchWord(s, i1, <<"i", "n", "f">>)
            THEN [exc |-> "none", val |-> Inf(sg)]
        ELSE IF MatchWord(s, i1, <<"n", "a", "n">>)
            THEN [exc |-> "none", val |-> NaN]
        ELSE IF nint + nfrac = 0
            THEN [exc |-> "invalid_argument", val |-> Fin(0)]
        ELSE DecimalValue(sg, m, nint, ex)

\* ------------------------------------------------------------ getCommandMsg

\* a handler for std::invalid_argument only
Catches_InvalidOnly(e) == e = "invalid_argument"

\* catch(...) catches every exception
Catches(e) == TRUE

\* one try block: parse, clamp with std::max then std::min; the handler
\* stores the default
TryParse(s, limit, dflt) ==
    LET r == StoF(s)
    IN  IF r.exc = "none"
            THEN [raised |-> FALSE,
                  v |-> StdMin(StdMax(r.val, FNeg(limit)), limit)]
        ELSE IF Catches(r.exc) THEN [raised |-> FALSE, v |-> dflt]
        ELSE [raised |-> TRUE, v |-> dflt]

Twist(x, z) == [linear |-> x, angular |-> z]

\* C++ args[1] and args[2] are a[2] and a[3] here (sequences start at 1)
getCommandMsg_SharedArg(a) ==
    LET lin == IF Len(a) > 1
               THEN TryParse(a[2], MaxVelocityCommand, DefaultVelocityCmd)
               ELSE [raised |-> FALSE, v |-> DefaultVelocityCmd]
        ang == IF Len(a) > 1
               THEN TryParse(a[2], MaxTurnRateCommand, DefaultTurnRateCmd)
               ELSE [raised |-> FALSE, v |-> DefaultTurnRateCmd]
    IN  [raised |-> lin.raised \/ ang.raised, msg |-> Twist(lin.v, ang.v)]

getCommandMsg(a) ==
    LET lin == IF Len(a) > 1
               THEN TryParse(a[2], MaxVelocityCommand, DefaultVelocityCmd)
               ELSE [raised |-> FALSE, v |-> DefaultVelocityCmd]
        ang == IF Len(a) > 2 /\ ~lin.raised
               THEN TryParse(a[3], MaxTurnRateCommand, DefaultTurnRateCmd)
               ELSE [raised |-> FALSE, v |-> DefaultTurnRateCmd]
    IN  [raised |-> lin.raised \/ ang.raised, msg |-> Twist(lin.v, ang.v)]

\* --------------------------------------------------------- bounds and inputs

MaxArgs == 4
MaxPublish == 2
MaxStatus == 2

ProgNames == { <<"p", "r", "o", "g">>, <<"2", ".", "5">> }
ExtraStrings == { <<"9">>, <<"n", "a", "n">> }
ArgStrings ==
    { <<"2", ".", "5">>, <<"0", ".", "3">>, <<"1", "0", ".", "0">>,
      <<"a", "b", "c">>, <<>>, <<"-", "7">>, <<"-", ".", "5">>,
      <<"n", "a", "n">>, <<"-", "N", "a", "N">>, <<"i", "n", "f">>,
      <<"-", "i", "n", "f">>, <<"1", "e", "3", "9">>, <<"4", "e", "3", "8">>,
      <<"-", "1", "e", "9", "9">>, <<"1", "e", "-", "4", "0">>,
      <<"1", "e", "9">>, <<" ", "1">>, <<"3", ".", "0", "a">>, <<".">>,
      <<"-">>, <<"0", ".", "7", "5">>, <<"1", "2", "e", "-", "1">> }

\* argument vectors of every length up to MaxArgs
CmdArgSeqs ==
    {<<>>}
    \cup { <<p>> : p \in ProgNames }
    \cup { <<p, s>> : p \in ProgNames, s \in ArgStrings }
    \cup { <<p, s, t>> : p \in ProgNames, s \in ArgStrings, t \in ArgStrings }
    \cup UNION { { <<p, s, t>> \o e :
                     p \in ProgNames, s \in ArgStrings, t \in ArgStrings,
                     e \in [1..n -> ExtraStrings] } : n \in 1..(MaxArgs - 3) }

\* the command lines the node is started with
MainArgSeqs ==
    { << <<"p", "r", "o", "g">> >>,
      << <<"p", "r", "o", "g">>, <<"2", ".", "5">>, <<"0", ".", "3">> >>,
      << <<"p", "r", "o", "g">>, <<"1", "0", ".", "0">> >>,
      << <<"p", "r", "o", "g">>, <<"a", "b", "c">>, <<"-", "i", "n", "f">> >>,
      << <<"p", "r", "o", "g">>, <<"1", "e", "3", "9">>, <<"-", ".", "5">>,
         <<"9">> >> }

StatusRecords ==
    { [externalControl |-> TRUE, fault |-> FALSE, contactors |-> TRUE,
       voltage |-> 482],
      [externalControl |-> FALSE, fault |-> TRUE, contactors |-> FALSE,
       voltage |-> 0] }

\* queue size given to nh.subscribe
StatusQueueSize == 1

\* -------------------------------------------------------------------- state

VARIABLES
    args,               \* the non-ROS command line arguments
    pc,                 \* position of the main thread
    cmdMsg,             \* the Twist built at start-up
    raised,             \* an exception left getCommandMsg
    shutdownRequested,  \* ros::ok() returns false
    advertised,         \* velCmdPub exists
    subscribed,         \* statusSub exists
    spinnerActive,      \* the AsyncSpinner delivers callbacks
    released,           \* ros::shutdown() was called
    published,          \* messages published on /j5_cmd
    sendLog,            \* "Sending Velocty Command" log lines
    sleeps,             \* loop_rate.sleep() calls that returned
    polls,              \* evaluations of ros::ok() by the loop
    pubsAtSignal,       \* Len(published) when the signal arrived, else -1
    arrived,            \* status messages received from the network
    statusQueue,        \* the subscription queue
    handled,            \* invocations of statusMsgHandler: the record
                        \* passed and the pc of main at that moment
    inflight,           \* invocations that have not logged yet
    statusLog,          \* "RCV Status" log lines
    exitStatus          \* return value of main, -1 while running

vars == << args, pc, cmdMsg, raised, shutdownRequested, advertised,
           subscribed, spinnerActive, released, published, sendLog, sleeps,
           polls, pubsAtSignal, arrived, statusQueue, handled, inflight,
           statusLog, exitStatus >>

loopVars == << published, sendLog, sleeps, polls >>
statusVars == << arrived, statusQueue, handled, inflight, statusLog >>
rosVars == << advertised, subscribed, spinnerActive, released >>

NoValue == [k |-> "none", n |-> 0]
NoMsg == Twist(NoValue, NoValue)

InitRest ==
    /\ cmdMsg = NoMsg
    /\ raised = FALSE
    /\ shutdownRequested = FALSE
    /\ advertised = FALSE
    /\ subscribed = FALSE
    /\ spinnerActive = FALSE
    /\ released = FALSE
    /\ published = <<>>
    /\ sendLog = <<>>
    /\ sleeps = 0
    /\ polls = 0
    /\ pubsAtSignal = 0 - 1
    /\ arrived = 0
    /\ statusQueue = <<>>
    /\ handled = <<>>
    /\ inflight = {}
    /\ statusLog = <<>>
    /\ exitStatus = 0 - 1

\* ------------------------------------------- the command builder on its own

InitCmd == args \in CmdArgSeqs /\ pc = "call" /\ InitRest

CallGetCommandMsg ==
    /\ pc = "call"
    /\ LET r == getCommandMsg(args)
       IN  cmdMsg' = r.msg /\ raised' = r.raised
    /\ pc' = "returned"
    /\ UNCHANGED << args, shutdownRequested, rosVars, loopVars, pubsAtSignal,
                    statusVars, exitStatus >>

NextCmd == CallGetCommandMsg

SpecCmd == InitCmd /\ [][NextCmd]_vars

\* --------------------------------------------------------------------- main

Init == args \in MainArgSeqs /\ pc = "init" /\ InitRest

\* removeROSArgs, ros::init, NodeHandle
RosInit ==
    /\ pc = "init"
    /\ pc' = "advertise"
    /\ UNCHANGED << args, cmdMsg, raised, shutdownRequested, rosVars,
                    loopVars, pubsAtSignal, statusVars, exitStatus >>

Advertise ==
    /\ pc = "advertise"
    /\ advertised' = TRUE
    /\ pc' = "subscribe"
    /\ UNCHANGED << args, cmdMsg, raised, shutdownRequested, subscribed,
                    spinnerActive, released, loopVars, pubsAtSignal,
                    statusVars, exitStatus >>

\* nh.subscribe; the spinner and the rate object are only constructed
Subscribe ==
    /\ pc = "subscribe"
    /\ subscribed' = TRUE
    /\ pc' = "build"
    /\ UNCHANGED << args, cmdMsg, raised, shutdownRequested, advertised,
                    spinnerActive, released, loopVars, pubsAtSignal,
                    statusVars, exitStatus >>

\* getCommandMsg applied to each start-up command line
StartupCommand == [a \in MainArgSeqs |-> getCommandMsg(a)]

\* cmdMsg = getCommandMsg(args); an exception leaving it ends the process
BuildCommand ==
    /\ pc = "build"
    /\ LET r == StartupCommand[args]
       IN  IF r.raised
           THEN /\ raised' = TRUE
                /\ pc' = "aborted"
                /\ UNCHANGED cmdMsg
           ELSE /\ cmdMsg' = r.msg
                /\ pc' = "start"
                /\ UNCHANGED raised
    /\ UNCHANGED << args, shutdownRequested, rosVars, loopVars, pubsAtSignal,
                    statusVars, exitStatus >>

SpinnerStart ==
    /\ pc = "start"
    /\ spinnerActive' = TRUE
    /\ pc' = "poll"
    /\ UNCHANGED << args, cmdMsg, raised, shutdownRequested, advertised,
                    subscribed, released, loopVars, pubsAtSignal, statusVars,
                    exitStatus >>

\* while (true): the flag is never consulted
PollOk_Forever ==
    /\ pc = "poll"
    /\ Len(published) < MaxPublish
    /\ polls' = polls + 1
    /\ pc' = "log"
    /\ UNCHANGED << args, cmdMsg, raised, shutdownRequested, rosVars,
                    published, sendLog, sleeps, pubsAtSignal, statusVars,
                    exitStatus >>

\* while (ros::ok())
PollOk ==
    /\ pc = "poll"
    /\ shutdownRequested \/ Len(published) < MaxPublish
    /\ polls' = polls + 1
    /\ pc' = IF shutdownRequested THEN "stop" ELSE "log"
    /\ UNCHANGED << args, cmdMsg, raised, shutdownRequested, rosVars,
                    published, sendLog, sleeps, pubsAtSignal, statusVars,
                    exitStatus >>

\* ROS_INFO("Sending Velocty Command: ...")
LogSend ==
    /\ pc = "log"
    /\ sendLog' = Append(sendLog, cmdMsg)
    /\ pc' = "publish"
    /\ UNCHANGED << args, cmdMsg, raised, shutdownRequested, rosVars,
                    published, sleeps, polls, pubsAtSignal, statusVars,
                    exitStatus >>

Publish ==
    /\ pc = "publish"
    /\ published' = Append(published, cmdMsg)
    /\ pc' = "sleep"
    /\ UNCHANGED << args, cmdMsg, raised, shutdownRequested, rosVars,
                    sendLog, sleeps, polls, pubsAtSignal, statusVars,
                    exitStatus >>

\* a break after the first sleep
Sleep_Break ==
    /\ pc = "sleep"
    /\ sleeps' = sleeps + 1
    /\ pc' = "stop"
    /\ UNCHANGED << args, cmdMsg, raised, shutdownRequested, rosVars,
                    published, sendLog, polls, pubsAtSignal, statusVars,
                    exitStatus >>

\* the loop test is skipped after a sleep
Sleep_NoPoll ==
    /\ pc = "sleep"
    /\ sleeps' = sleeps + 1
    /\ pc' = IF Len(published) < MaxPublish THEN "log" ELSE "poll"
    /\ UNCHANGED << args, cmdMsg, raised, shutdownRequested, rosVars,
                    published, sendLog, polls, pubsAtSignal, statusVars,
                    exitStatus >>

Sleep ==
    /\ pc = "sleep"
    /\ sleeps' = sleeps + 1
    /\ pc' = "poll"
    /\ UNCHANGED << args, cmdMsg, raised, shutdownRequested, rosVars,
                    published, sendLog, polls, pubsAtSignal, statusVars,
                    exitStatus >>

\* spinner.stop() left out
SpinnerStop_Skipped ==
    /\ pc = "stop"
    /\ pc' = "shutdown"
    /\ UNCHANGED << args, cmdMsg, raised, shutdownRequested, rosVars,
                    loopVars, pubsAtSignal, statusVars, exitStatus >>

\* spinner.stop() joins the callback threads
SpinnerStop ==
    /\ pc = "stop"
    /\ inflight = {}
    /\ spinnerActive' = FALSE
    /\ pc' = "shutdown"
    /\ UNCHANGED << args, cmdMsg, raised, shutdownRequested, advertised,
                    subscribed, released, loopVars, pubsAtSignal, statusVars,
                    exitStatus >>

RosShutdown ==
    /\ pc = "shutdown"
    /\ released' = TRUE
    /\ shutdownRequested' = TRUE
    /\ statusQueue' = <<>>
    /\ pc' = "return"
    /\ UNCHANGED << args, cmdMsg, raised, advertised, subscribed,
                    spinnerActive, loopVars, pubsAtSignal, arrived, handled,
                    inflight, statusLog, exitStatus >>

Return ==
    /\ pc = "return"
    /\ exitStatus' = 0
    /\ pc' = "done"
    /\ UNCHANGED << args, cmdMsg, raised, shutdownRequested, rosVars,
                    loopVars, pubsAtSignal, statusVars >>

Main ==
    \/ RosInit \/ Advertise \/ Subscribe \/ BuildCommand \/ SpinnerStart
    \/ PollOk \/ LogSend \/ Publish \/ Sleep
    \/ SpinnerStop \/ RosShutdown \/ Return

\* ------------------------------------------------- middleware and callbacks

\* the continuation signal turns false (SIGINT or a remote shutdown)
ShutdownSignal ==
    /\ pc \notin {"init", "done", "aborted"}
    /\ ~shutdownRequested
    /\ shutdownRequested' = TRUE
    /\ pubsAtSignal' = Len(published)
    /\ UNCHANGED << args, pc, cmdMsg, raised, rosVars, loopVars, statusVars,
                    exitStatus >>

\* a message arrives on /j5_status; a full queue drops its oldest entry
StatusArrive(rec) ==
    /\ subscribed /\ ~released
    /\ arrived < MaxStatus
    /\ arrived' = arrived + 1
    /\ statusQueue' = IF Len(statusQueue) >= StatusQueueSize
                      THEN Append(Tail(statusQueue), rec)
                      ELSE Append(statusQueue, rec)
    /\ UNCHANGED << args, pc, cmdMsg, raised, shutdownRequested, rosVars,
                    loopVars, pubsAtSignal, handled, inflight, statusLog,
                    exitStatus >>

\* a spinner thread takes the next message and enters statusMsgHandler
HandlerInvoke ==
    /\ spinnerActive
    /\ statusQueue # <<>>
    /\ handled' = Append(handled, [rec |-> Head(statusQueue), at |-> pc])
    /\ inflight' = inflight \cup
                      {[id |-> Len(handled) + 1, rec |-> Head(statusQueue)]}
    /\ statusQueue' = Tail(statusQueue)
    /\ UNCHANGED << args, pc, cmdMsg, raised, shutdownRequested, rosVars,
                    loopVars, pubsAtSignal, arrived, statusLog, exitStatus >>

\* a handler that zeroes the command when the vehicle reports a fault
statusMsgHandler_StopsOnFault ==
    \E inv \in inflight :
        /\ statusLog' = Append(statusLog, inv)
        /\ inflight' = inflight \ {inv}
        /\ cmdMsg' = IF inv.rec.fault
                      THEN Twist(DefaultVelocityCmd, DefaultTurnRateCmd)
                      ELSE cmdMsg
        /\ UNCHANGED << args, pc, raised, shutdownRequested, rosVars,
                        loopVars, pubsAtSignal, arrived, statusQueue,
                        handled, exitStatus >>

\* a handler that logs a record only when it differs from the last one logged
statusMsgHandler_Dedup ==
    \E inv \in inflight :
        /\ statusLog' = IF statusLog # <<>>
                            /\ statusLog[Len(statusLog)].rec = inv.rec
                         THEN statusLog
                         ELSE Append(statusLog, inv)
        /\ inflight' = inflight \ {inv}
        /\ UNCHANGED << args, pc, cmdMsg, raised, shutdownRequested, rosVars,
                        loopVars, pubsAtSignal, arrived, statusQueue,
                        handled, exitStatus >>

\* the body of statusMsgHandler: one ROS_INFO of the four fields
statusMsgHandler ==
    \E inv \in inflight :
        /\ statusLog' = Append(statusLog, inv)
        /\ inflight' = inflight \ {inv}
        /\ UNCHANGED << args, pc, cmdMsg, raised, shutdownRequested, rosVars,
                        loopVars, pubsAtSignal, arrived, statusQueue,
                        handled, exitStatus >>

Next ==
    \/ Main
    \/ ShutdownSignal
    \/ \E rec \in StatusRecords : StatusArrive(rec)
    \/ HandlerInvoke
    \/ statusMsgHandler

Spec == Init /\ [][Next]_vars

\* the main thread keeps running and a callback that was entered returns
FairSpec == Spec /\ WF_vars(Main) /\ WF_vars(statusMsgHandler)

\* ------------------------------------------------------------------- claims

\* |a| and a <= b on doubles (a comparison with a NaN is false)
FAbs(a) == IF a.k = "nan" THEN a ELSE [a EXCEPT !.n = IF a.n < 0 THEN 0 - a.n ELSE a.n]
FLe(a, b) == FLt(a, b) \/ FEq(a, b)

\* clamp(v, lo, hi) as a test of the property would compute it
Clamp(v, lo, hi) == IF FLt(v, lo) THEN lo ELSE IF FLt(hi, v) THEN hi ELSE v

Parses(s) == StoF(s).exc = "none"

\* C1: for every argument sequence the command returned by getCommandMsg has
\* |linearSpeed| <= 3.0 and |angularRate| <= 1.0, special values included.
C1_CommandBounded ==
    pc = "returned" =>
        /\ FLe(FAbs(cmdMsg.linear), MaxVelocityCommand)
        /\ FLe(FAbs(cmdMsg.angular), MaxTurnRateCommand)

\* the same bound for the arguments that do not parse to a NaN
C1_BoundedUnlessNaN ==
    pc = "returned" =>
        /\ cmdMsg.linear.k # "nan" =>
               FLe(FAbs(cmdMsg.linear), MaxVelocityCommand)
        /\ cmdMsg.angular.k # "nan" =>
               FLe(FAbs(cmdMsg.angular), MaxTurnRateCommand)

\* each field depends only on its own argument: replacing args[1], replacing
\* args[0], and adding, replacing or dropping an element at index 3 or above
\* leaves the field's result as it is
FieldsIndependent ==
    /\ Len(args) > 2 =>
           \A s \in ArgStrings :
               getCommandMsg([args EXCEPT ![2] = s]).msg.angular = cmdMsg.angular
    /\ Len(args) > 0 =>
           \A p \in ProgNames \cup ArgStrings :
               getCommandMsg([args EXCEPT ![1] = p]).msg = cmdMsg
    /\ Len(args) > 2 =>
           /\ getCommandMsg(SubSeq(args, 1, 3)).msg = cmdMsg
           /\ \A e \in ArgStrings :
                  /\ getCommandMsg(Append(args, e)).msg = cmdMsg
                  /\ \A i \in 4..Len(args) :
                         getCommandMsg([args EXCEPT ![i] = e]).msg = cmdMsg

\* C2: when args[1] parses to v the result is linearSpeed == clamp(v, -3, 3),
\* when args[2] parses to w it is angularRate == clamp(w, -1, 1), and each
\* field depends only on its own argument.
C2_ClampedPerField ==
    pc = "returned" =>
        /\ (Len(args) > 1 /\ Parses(args[2])) =>
               FEq(cmdMsg.linear,
                   Clamp(StoF(args[2]).val, FNeg(MaxVelocityCommand),
                         MaxVelocityCommand))
        /\ (Len(args) > 2 /\ Parses(args[3])) =>
               FEq(cmdMsg.angular,
                   Clamp(StoF(args[3]).val, FNeg(MaxTurnRateCommand),
                         MaxTurnRateCommand))
        /\ FieldsIndependent

\* the same statement for the arguments that do not parse to a NaN
C2_ClampedUnlessNaN ==
    pc = "returned" =>
        /\ (Len(args) > 1 /\ Parses(args[2]) /\ StoF(args[2]).val.k # "nan") =>
               FEq(cmdMsg.linear,
                   Clamp(StoF(args[2]).val, FNeg(MaxVelocityCommand),
                         MaxVelocityCommand))
        /\ (Len(args) > 2 /\ Parses(args[3]) /\ StoF(args[3]).val.k # "nan") =>
               FEq(cmdMsg.angular,
                   Clamp(StoF(args[3]).val, FNeg(MaxTurnRateCommand),
                         MaxTurnRateCommand))
        /\ FieldsIndependent

\* C3: getCommandMsg never raises; when parsing args[1] fails (no number,
\* empty, out of range) linearSpeed is exactly the default 0.0, and when
\* parsing args[2] fails angularRate is exactly the default 0.0.
C3_TotalDefaultOnFailure ==
    pc = "returned" =>
        /\ ~raised
        /\ (Len(args) > 1 /\ ~Parses(args[2])) =>
               cmdMsg.linear = DefaultVelocityCmd
        /\ (Len(args) > 2 /\ ~Parses(args[3])) =>
               cmdMsg.angular = DefaultTurnRateCmd

C3_Witness ==
    /\ pc = "returned"
    /\ Len(args) > 2
    /\ StoF(args[2]).exc = "out_of_range"
    /\ StoF(args[3]).exc = "invalid_argument"
    /\ cmdMsg = Twist(Fin(0), Fin(0))
    /\ ~raised

\* C4: with fewer than 2 elements the command is {0.0, 0.0}; with exactly 2
\* elements angularRate is 0.0 whatever args[1] is.
C4_AbsentKeepsDefault ==
    pc = "returned" =>
        /\ Len(args) < 2 => cmdMsg = Twist(Fin(0), Fin(0))
        /\ Len(args) = 2 => cmdMsg.angular = Fin(0)

C4_Witness ==
    /\ pc = "returned"
    /\ Len(args) = 2
    /\ cmdMsg.linear = Fin(250)
    /\ cmdMsg.angular = Fin(0)

BeforeBuild == {"init", "advertise", "subscribe", "build"}
LoopPcs == {"poll", "log", "publish", "sleep"}
AfterLoop == {"stop", "shutdown", "return", "done", "aborted"}

\* the life cycle of section 4.2, read off the position of main
Phase(p) ==
    IF p \in BeforeBuild \cup {"start"} THEN "Idle"
    ELSE IF p \in LoopPcs THEN "Running"
    ELSE IF p \in {"stop", "shutdown", "return"} THEN "ShuttingDown"
    ELSE "Terminated"

PhaseRank(p) ==
    CASE Phase(p) = "Idle" -> 0
      [] Phase(p) = "Running" -> 1
      [] Phase(p) = "ShuttingDown" -> 2
      [] OTHER -> 3

\* number of log lines written for invocation id
LogCount(id) == Cardinality({i \in 1..Len(statusLog) : statusLog[i].id = id})

\* C5: the command is built once and never changes afterwards; every message
\* published equals the command getCommandMsg returns for the start-up
\* arguments, under every interleaving with callbacks and the signal.
C5_CommandFixed ==
    /\ [](\A i \in 1..Len(published) : published[i] = getCommandMsg(args).msg)
    /\ [][pc \notin BeforeBuild => cmdMsg' = cmdMsg]_vars
    /\ [][args' = args]_vars

C5_Witness ==
    /\ Len(published) = 2
    /\ published[2] = Twist(Fin(250), Fin(30))
    /\ \E i \in 1..Len(statusLog) : statusLog[i].rec.fault
    /\ shutdownRequested

\* C6: every record passed to statusMsgHandler is logged exactly once, with
\* its own field values, however invocations interleave, and handling it
\* leaves the outbound command unchanged.
C6_LoggedOnce ==
    /\ [](\A id \in 1..Len(handled) :
            LogCount(id) = IF \E inv \in inflight : inv.id = id THEN 0 ELSE 1)
    /\ [](\A i \in 1..Len(statusLog) :
            /\ statusLog[i].id \in 1..Len(handled)
            /\ statusLog[i].rec = handled[statusLog[i].id].rec)
    /\ [](pc \in {"shutdown", "return", "done"} =>
            Len(statusLog) = Len(handled))
    /\ [][(handled' # handled \/ statusLog' # statusLog) =>
            (cmdMsg' = cmdMsg /\ published' = published)]_vars

C6_Witness ==
    /\ Len(statusLog) = 2
    /\ statusLog[1].id = 2
    /\ statusLog[1].rec = statusLog[2].rec
    /\ statusLog[1].rec.voltage = 482
    /\ handled[1].at \in LoopPcs
    /\ published # <<>>

\* C7: the life cycle only moves forward through Idle, Running, ShuttingDown,
\* Terminated without skipping or re-entering a state; Running is left only
\* when ros::ok() is observed false; a command is published only in Running;
\* when the signal is already false at the first poll nothing is published.
C7_Lifecycle ==
    /\ [][PhaseRank(pc') \in {PhaseRank(pc), PhaseRank(pc) + 1}]_vars
    /\ [][(Phase(pc) = "Running" /\ Phase(pc') # "Running") =>
            (pc = "poll" /\ shutdownRequested)]_vars
    /\ [][published' # published =>
            (Phase(pc) = "Running" /\ Phase(pc') = "Running")]_vars
    /\ [](Phase(pc) = "Idle" => published = <<>>)
    /\ []((polls = 1 /\ pc \in AfterLoop) => published = <<>>)

C7_Witness ==
    /\ pc = "done"
    /\ polls = 1
    /\ published = <<>>

\* C8: once the continuation signal is false the node eventually leaves the
\* loop, stops the spinner, releases the middleware and terminates; every
\* terminating run exits with status 0, whatever the arguments were.
C8_Terminates ==
    /\ shutdownRequested ~>
          (pc = "done" /\ ~spinnerActive /\ released /\ exitStatus = 0)
    /\ [](pc \in {"done", "aborted"} => (pc = "done" /\ exitStatus = 0))
    /\ [](exitStatus \in {0 - 1, 0})

C8_Witness ==
    /\ pc = "done"
    /\ exitStatus = 0
    /\ released
    /\ ~spinnerActive
    /\ Len(args) > 1
    /\ ~Parses(args[2])

\* where the loop stands after sleeps complete iterations
LoopCounts ==
    LET n == sleeps
    IN  CASE pc \in BeforeBuild \cup {"start"} ->
                 polls = 0 /\ n = 0 /\ sendLog = <<>> /\ published = <<>>
          [] pc = "poll" ->
                 polls = n /\ Len(sendLog) = n /\ Len(published) = n
          [] pc = "log" ->
                 polls = n + 1 /\ Len(sendLog) = n /\ Len(published) = n
          [] pc = "publish" ->
                 polls = n + 1 /\ Len(sendLog) = n + 1 /\ Len(published) = n
          [] pc = "sleep" ->
                 polls = n + 1 /\ Len(sendLog) = n + 1
                 /\ Len(published) = n + 1
          [] OTHER ->
                 polls = n + 1 /\ Len(sendLog) = n /\ Len(published) = n

\* C9: iterations are sequential and ros::ok() is polled once per iteration:
\* between two polls there is one log line, one publish and one sleep, in
\* that order; nothing is published after a poll that saw the flag false; at
\* most one command is published after the flag turns false.
C9_Sequential ==
    /\ []LoopCounts
    /\ [][(pc \in AfterLoop) =>
            (published' = published /\ sendLog' = sendLog)]_vars
    /\ [][(pc = "poll" /\ shutdownRequested) => published' = published]_vars
    /\ [](pubsAtSignal >= 0 => Len(published) <= pubsAtSignal + 1)

C9_Witness ==
    /\ pc = "done"
    /\ pubsAtSignal = 1
    /\ Len(published) = 2
    /\ sleeps = 2
    /\ polls = 3

\* C10: statusMsgHandler is invoked only while asynchronous delivery is
\* active: not before the channel is advertised, the subscription registered
\* and the command built, and not after the spinner is stopped; it may still
\* be invoked between the poll that saw the flag false and spinner.stop().
C10_HandlerWindow ==
    /\ [](\A i \in 1..Len(handled) : handled[i].at \in LoopPcs \cup {"stop"})
    /\ [](spinnerActive => (advertised /\ subscribed /\ cmdMsg # NoMsg))
    /\ [][handled' # handled =>
            (spinnerActive /\ advertised /\ subscribed /\ cmdMsg # NoMsg
             /\ ~released)]_vars

C10_Witness ==
    /\ pc = "done"
    /\ \E i \in 1..Len(handled) : handled[i].at = "stop"

====
